---------------------------- MODULE Spec2Model ----------------------------
(***************************************************************************)
(* A model of salmon_rs: the software canvas (software_canvas.rs), the     *)
(* colour value (vec4.rs), the frame timing (timing.rs) and the App under  *)
(* its event loop (main.rs).                                               *)
(*                                                                         *)
(* Numbers.  TLC's integers are 32 bits wide, so                           *)
(*   - an f32 value is the pair <<m, e>> that stands for m * 2^e, kept     *)
(*     canonical (m odd, or <<0, 0>>); it is a value of the f32 type when  *)
(*     |m| < 2^24.  Every f32 operation computes the exact result and      *)
(*     rounds it to 24 significant bits, ties to even, as IEEE 754 does;   *)
(*   - a u32 pixel word is the pair <<hi, lo>> of its 16-bit halves;       *)
(*   - an Instant is a number of nanoseconds since the start of the run.   *)
(***************************************************************************)
EXTENDS Integers, Sequences, FiniteSets, TLC

(***************************************************************************)
(* f32 arithmetic                                                          *)
(***************************************************************************)
\* 2^n, for n in 0..30
Pow2(n) ==
    <<1, 2, 4, 8, 16, 32, 64, 128, 256, 512, 1024, 2048, 4096, 8192, 16384, 32768,
      65536, 131072, 262144, 524288, 1048576, 2097152, 4194304, 8388608, 16777216,
      33554432, 67108864, 134217728, 268435456, 536870912, 1073741824>>[n + 1]

\* The number of bits of n >= 0
BitLen(n) ==
    Cardinality({i \in 0..30 : Pow2(i) <= n})

\* m * 2^e with the factors of two moved from m into e
Canon(m, e) ==
    IF m = 0 THEN <<0, 0>>
    ELSE LET twos == Cardinality({i \in 1..30 : (m % Pow2(i)) = 0})
         IN  <<m \div Pow2(twos), e + twos>>

\* The f32 nearest to (n + d) * 2^e, where 0 <= d < 1 and d > 0 iff sticky;
\* ties go to the even mantissa.
RoundF32(n, e, sticky) ==
    LET bits == BitLen(n) IN
    IF bits <= 24 THEN Canon(n, e)
    ELSE LET d    == bits - 24
             q    == n \div Pow2(d)
             rem  == n % Pow2(d)
             half == Pow2(d - 1)
             up   == \/ rem > half
                     \/ rem = half /\ sticky
                     \/ rem = half /\ ~sticky /\ (q % 2) = 1
         IN  Canon(IF up THEN q + 1 ELSE q, e + d)

\* u32 as f32, for values below 2^24 (exact)
F32OfInt(n) ==
    Canon(n, 0)

\* Long division, four bits at a time: q is the quotient so far, scaled by 2^k,
\* r the remainder (b < 2^27)
RECURSIVE LongDiv(_, _, _, _)
LongDiv(q, r, b, k) ==
    IF r = 0 \/ q >= 33554432 THEN RoundF32(q, 0 - k, r # 0)
    ELSE LongDiv((16 * q) + ((16 * r) \div b), (16 * r) % b, b, k + 4)

\* a as f32 / b as f32, for integers 0 <= a, 0 < b
F32DivInt(a, b) ==
    LongDiv(a \div b, a % b, b, 0)

\* k as f32 * f, for an integer 0 <= k (the product is exact in 31 bits)
F32MulInt(k, f) ==
    RoundF32(k * f[1], f[2], FALSE)

\* The f32 nearest to i + (frac + d) / 2^k, for integers 0 <= i, 0 <= frac < 2^k,
\* k <= 30, and 0 <= d < 1 with d > 0 iff sticky (and then i > 0)
F32OfFixed(i, frac, k, sticky) ==
    IF i = 0 THEN RoundF32(frac, 0 - k, sticky)
    ELSE LET keep == 26 - BitLen(i) IN
         IF k <= keep THEN RoundF32(i * Pow2(k) + frac, 0 - k, sticky)
         ELSE LET d == k - keep IN
              RoundF32(i * Pow2(keep) + (frac \div Pow2(d)), 0 - keep,
                       sticky \/ (frac % Pow2(d)) # 0)

\* s as f32 + f, for an integer 0 <= s and f >= 0.  The bits of f below 2^-30
\* only say whether the sum is exact.
F32AddInt(s, f) ==
    IF s = 0 THEN f
    ELSE IF f[2] >= 0 THEN RoundF32(s + f[1] * Pow2(f[2]), 0, FALSE)
    ELSE LET k    == 0 - f[2]
             cut  == IF k > 30 THEN k - 30 ELSE 0
             m    == f[1] \div Pow2(cut)
             bits == k - cut
         IN  F32OfFixed(s + (m \div Pow2(bits)), m % Pow2(bits), bits,
                        (f[1] % Pow2(cut)) # 0)

\* s as f32 - f, for an integer s and 0 <= f <= s with no bit below 2^-30
F32SubInt(s, f) ==
    IF f[2] >= 0 THEN RoundF32(s - f[1] * Pow2(f[2]), 0, FALSE)
    ELSE LET k == 0 - f[2] IN
         IF (f[1] % Pow2(k)) = 0 THEN RoundF32(s - (f[1] \div Pow2(k)), 0, FALSE)
         ELSE F32OfFixed(s - (f[1] \div Pow2(k)) - 1, Pow2(k) - (f[1] % Pow2(k)), k,
                         FALSE)

\* f as u32: truncation toward zero (a negative value saturates to 0)
F32AsU32(f) ==
    IF f[1] <= 0 THEN 0
    ELSE IF f[2] >= 0 THEN f[1] * Pow2(f[2])
    ELSE f[1] \div Pow2(0 - f[2])

\* f.round() as u32, for f >= 0: the nearest integer, halves away from zero
F32RoundAsU32(f) ==
    IF f[2] >= 0 THEN f[1] * Pow2(f[2])
    ELSE LET k == 0 - f[2] IN (f[1] + Pow2(k - 1)) \div Pow2(k)

\* f / g for f32 values f >= 0, g > 0
F32Div(f, g) ==
    LET q == LongDiv(f[1] \div g[1], f[1] % g[1], g[1], 0)
    IN  Canon(q[1], q[2] + f[2] - g[2])

(***************************************************************************)
(* vec4.rs: the colour value                                               *)
(***************************************************************************)
Vec4New(r, g, b, a) ==
    [r |-> r, g |-> g, b |-> b, a |-> a]

F32Zero ==
    <<0, 0>>

F32One ==
    <<1, 0>>

Black ==
    Vec4New(F32Zero, F32Zero, F32Zero, F32One)

White ==
    Vec4New(F32One, F32One, F32One, F32One)

Pink ==
    Vec4New(F32One, F32Zero, F32One, F32One)

Blue ==
    Vec4New(F32Zero, F32Zero, F32One, F32One)

Green ==
    Vec4New(F32Zero, F32One, F32Zero, F32One)

Yellow ==
    Vec4New(F32One, F32One, F32Zero, F32One)

Red ==
    Vec4New(F32One, F32Zero, F32Zero, F32One)

\* f.clamp(0.0, 1.0)
Clamp01(f) ==
    IF f[1] < 0 THEN F32Zero
    ELSE IF f[2] >= 0 /\ f[1] * Pow2(f[2]) > 1 THEN F32One
    ELSE IF f[2] < 0 /\ f[1] > Pow2(0 - f[2]) THEN F32One
    ELSE f

\* (c.clamp(0.0, 1.0) * 255.0) as u32
ChannelByte(f) ==
    F32AsU32(F32MulInt(255, Clamp01(f)))

\* (a << 24) | (r << 16) | (g << 8) | b, as the halves <<hi, lo>> of the u32
PackArgb(a, r, g, b) ==
    <<a * 256 + r, g * 256 + b>>

ToArgb(v) ==
    PackArgb(ChannelByte(v.a), ChannelByte(v.r), ChannelByte(v.g), ChannelByte(v.b))

(***************************************************************************)
(* State                                                                   *)
(***************************************************************************)
VARIABLES
    \* SoftwareCanvas (software_canvas.rs)
    canvas_size,           \* the logical size <<W, H>>
    window_size,           \* the cached physical size
    surface,               \* "None" | "Some"
    context,               \* "None" | "Some"
    current_surface_size,  \* Option<(u32, u32)>: [some, val]
    \* the softbuffer surface the canvas owns
    surf_dims,             \* the size of the last resize; <<0, 0>> before any
    buffer,                \* buffer[row][col], row-major, row 0 at the top
    \* the host and the process
    inner_size,            \* window.inner_size()
    platform_ok,           \* FALSE while the platform's surface calls fail
    macos,                 \* cfg!(target_os = "macos")
    status,                \* "running" | "panicked"
    \* history of the canvas calls
    last,                  \* the last call: [op, size, resized, failed, ret, again]
    calls,                 \* the points the last draw_line gave to set_pixel
    \* FrameTiming (timing.rs)
    now,                   \* the clock, in nanoseconds
    last_frame_time,
    frame_count_since_last_update,
    fps_update_time,
    t_last,                \* the last timing call, see TimingCall
    t_prev,                \* the call before it
    t_calls,               \* the number of timing calls so far
    \* Vec4 (vec4.rs)
    color,                 \* the colour under conversion
    argb,                  \* [some, val]: the result of color.to_argb()
    \* the arguments of the drawing call under test
    args,
    pc,                    \* where the running call or event handler stands
    \* App (main.rs); its surface, context and three timing fields are the
    \* variables of the same names above
    window,                \* "None" | "Some"
    current_size,          \* Option<(u32, u32)>: [some, val]
    overflow_checks,       \* the build panics on integer overflow (debug profile)
    handler,               \* the event the loop delivered last
    log,                   \* what that handler has done so far, see Logged
    events                 \* the number of events the loop has delivered

canvas_vars ==
    <<canvas_size, window_size, surface, context, current_surface_size,
      surf_dims, buffer, inner_size, platform_ok, macos, status, last, calls>>

timing_vars ==
    <<now, last_frame_time, frame_count_since_last_update, fps_update_time,
      t_last, t_prev, t_calls>>

color_vars ==
    <<color, argb>>

draw_vars ==
    <<args, pc>>

app_vars ==
    <<window, current_size, overflow_checks, handler, log, events>>

vars ==
    <<canvas_vars, timing_vars, color_vars, draw_vars, app_vars>>

(***************************************************************************)
(* software_canvas.rs: the canvas                                          *)
(***************************************************************************)
None ==
    [some |-> FALSE, val |-> <<0, 0>>]

Some(v) ==
    [some |-> TRUE, val |-> v]

\* The record of a call: the window size it saw, whether it resized the surface,
\* whether a platform call failed in it, what it returned, whether the size it
\* saw was the cached one, and whether it is an ensure_surface_size that follows
\* one that saw the same size
NoCall ==
    [op |-> "none", size |-> <<0, 0>>, resized |-> FALSE, failed |-> FALSE,
     ret |-> "none", cached |-> FALSE, again |-> FALSE]

Call(op, size, resized, failed, ret) ==
    [op |-> op, size |-> size, resized |-> resized, failed |-> failed, ret |-> ret,
     cached |-> current_surface_size = [some |-> TRUE, val |-> size],
     again |-> op = "ensure_surface_size" /\ last.op = op /\ last.size = size]

\* A buffer of the given size with every pixel w
Filled(size, w) ==
    [row \in 0..(size[2] - 1) |-> [col \in 0..(size[1] - 1) |-> w]]

\* What a surface holds right after resize: softbuffer does not say
ResizedContents ==
    {<<0, 0>>, <<52445, 61389>>}

\* surface.buffer_mut() is Ok: there is a surface, it has a size, the platform maps it
BufferMutOk ==
    surface = "Some" /\ surf_dims # <<0, 0>> /\ platform_ok

Min(a, b) ==
    IF a < b THEN a ELSE b

Abs(a) ==
    IF a < 0 THEN 0 - a ELSE a

\* The surface columns start_x..end_x.min(window_size.0) a logical column covers
PixelCols(x) ==
    LET scale_x == F32DivInt(window_size[1], canvas_size[1])
        start_x == F32AsU32(F32MulInt(x, scale_x))
        end_x   == F32AsU32(F32MulInt(x + 1, scale_x))
    IN  start_x..(Min(end_x, window_size[1]) - 1)

\* The surface rows start_y..end_y.min(window_size.1), before the flip
PixelRows(y) ==
    LET scale_y == F32DivInt(window_size[2], canvas_size[2])
        start_y == F32AsU32(F32MulInt(y, scale_y))
        end_y   == F32AsU32(F32MulInt(y + 1, scale_y))
    IN  start_y..(Min(end_y, window_size[2]) - 1)

\* set_pixel on the buffer buf.  The index real_y * window_size.0 + surface_x is
\* the cell (real_y, surface_x): a mapped buffer has the cached size.
SetPixel(buf, x, y, c) ==
    IF x >= canvas_size[1] \/ y >= canvas_size[2] THEN buf
    ELSE IF ~BufferMutOk THEN buf
    ELSE LET cols == PixelCols(x)
             rows == PixelRows(y)
             argb_color == ToArgb(c)
         IN  [real_y \in DOMAIN buf |->
                IF (window_size[2] - 1 - real_y) \in rows
                THEN [surface_x \in DOMAIN buf[real_y] |->
                        IF surface_x \in cols THEN argb_color
                        ELSE buf[real_y][surface_x]]
                ELSE buf[real_y]]

Clear(buf, c) ==
    IF ~BufferMutOk THEN buf
    ELSE LET argb_color == ToArgb(c)
         IN  [row \in DOMAIN buf |-> [col \in DOMAIN buf[row] |-> argb_color]]

\* A draw_line that never takes a line for steep: what LineIsConnected rules out
SteepNever(x1, y1, x2, y2) ==
    FALSE

\* |x1 - x2| < |y1 - y2|
Steep(x1, y1, x2, y2) ==
    Abs(x1 - x2) < Abs(y1 - y2)

\* <<start_x, start_y, end_x, end_y>> after the swap of the axes of a steep line
SwapAxes(x1, y1, x2, y2) ==
    IF Steep(x1, y1, x2, y2) THEN <<y1, x1, y2, x2>> ELSE <<x1, y1, x2, y2>>

\* A draw_line that keeps the endpoints in the order given: what
\* LineIsSymmetric rules out
OrderEndsAsGiven(e) ==
    e

\* ... and after the swap of the endpoints that makes start_x <= end_x
OrderEnds(e) ==
    IF e[1] > e[3] THEN <<e[3], e[4], e[1], e[2]>> ELSE e

\* The minor coordinate at the major coordinate x
LineY(e, x) ==
    LET dx == e[3] - e[1]
        dy == IF e[4] > e[2] THEN e[4] - e[2] ELSE e[2] - e[4]
        progress == IF dx > 0 THEN F32DivInt(x - e[1], dx) ELSE F32Zero
    IN  IF e[4] > e[2]
        THEN F32RoundAsU32(F32AddInt(e[2], F32MulInt(dy, progress)))
        ELSE F32RoundAsU32(F32SubInt(e[2], F32MulInt(dy, progress)))

\* The points draw_line gives to set_pixel, in the order of the calls
LinePoints(x1, y1, x2, y2) ==
    LET e == OrderEnds(SwapAxes(x1, y1, x2, y2))
    IN  [i \in 1..(e[3] - e[1] + 1) |->
            LET x == e[1] + i - 1
                y == LineY(e, x)
            IN  IF Steep(x1, y1, x2, y2) THEN <<y, x>> ELSE <<x, y>>]

\* The set_pixel calls lo..hi of the loop, in order: those of the first half, then
\* those of the second
RECURSIVE SetPixels(_, _, _, _, _)
SetPixels(buf, pts, lo, hi, c) ==
    IF lo > hi THEN buf
    ELSE IF lo = hi THEN SetPixel(buf, pts[lo][1], pts[lo][2], c)
    ELSE LET mid   == (lo + hi) \div 2
             first == SetPixels(buf, pts, lo, mid, c)
         IN  \* the comparison has the buffer computed before the later calls
             IF first = buf THEN SetPixels(buf, pts, mid + 1, hi, c)
             ELSE SetPixels(first, pts, mid + 1, hi, c)

DrawLine(buf, x1, y1, x2, y2, c) ==
    LET pts == LinePoints(x1, y1, x2, y2)
    IN  SetPixels(buf, pts, 1, Len(pts), c)

\* render_frame: (ax, ay) = (7, 3), (bx, by) = (12, 37); (cx, cy) is not used
RenderFrame(buf) ==
    DrawLine(Clear(buf, Black), 7, 3, 12, 37, Blue)

\* An ensure_surface_size that resizes whatever the cached size: what
\* EnsureIsIdempotent rules out
NeedsResizeAlways(size) ==
    TRUE

\* Whether ensure_surface_size goes on to resize: the cached size differs, or the
\* build is for macOS
NeedsResize(size) ==
    current_surface_size # Some(size) \/ macos

NonZero(size) ==
    size[1] > 0 /\ size[2] > 0

\* The sizes the host window takes
HostSizes ==
    IF canvas_size = <<64, 64>>
    THEN {<<0, 0>>, <<64, 64>>, <<640, 640>>}
    ELSE {<<0, 0>>, <<4, 0>>, <<3, 2>>, <<7, 5>>}

\* SoftwareCanvas::new(width, height), beside a host window of some size
CanvasNew(size) ==
    /\ canvas_size = size
    /\ window_size = <<0, 0>>
    /\ surface = "None"
    /\ context = "None"
    /\ current_surface_size = None
    /\ surf_dims = <<0, 0>>
    /\ buffer = <<>>
    /\ inner_size \in HostSizes
    /\ platform_ok = TRUE
    /\ macos \in BOOLEAN
    /\ status = "running"
    /\ last = NoCall
    /\ calls = <<>>

\* The host resizes the window
WindowResized ==
    /\ status = "running"
    /\ \E size \in HostSizes :
          /\ size # inner_size
          /\ inner_size' = size
    /\ UNCHANGED <<canvas_size, window_size, surface, context, current_surface_size,
                   surf_dims, buffer, platform_ok, macos, status, last, calls>>
    /\ UNCHANGED <<timing_vars, color_vars, draw_vars, app_vars>>

\* The platform's surface calls start, or stop, failing
PlatformFault ==
    /\ status = "running"
    /\ platform_ok' = ~platform_ok
    /\ UNCHANGED <<canvas_size, window_size, surface, context, current_surface_size,
                   surf_dims, buffer, inner_size, macos, status, last, calls>>
    /\ UNCHANGED <<timing_vars, color_vars, draw_vars, app_vars>>

\* Context::new, Surface::new and resize are each followed by expect: a failure
\* panics before any field is assigned
initialize_graphics ==
    /\ status = "running"
    /\ LET size == inner_size IN
       IF ~platform_ok
       THEN /\ status' = "panicked"
            /\ last' = Call("initialize_graphics", size, FALSE, TRUE, "panic")
            /\ UNCHANGED <<window_size, surface, context, current_surface_size,
                           surf_dims, buffer>>
       ELSE /\ surface' = "Some"
            /\ context' = "Some"
            /\ last' = Call("initialize_graphics", size, NonZero(size), FALSE, "Ok")
            /\ IF NonZero(size)
               THEN /\ \E w \in ResizedContents : buffer' = Filled(size, w)
                    /\ surf_dims' = size
                    /\ current_surface_size' = Some(size)
                    /\ window_size' = size
               ELSE \* the new surface has no size yet
                    /\ buffer' = <<>>
                    /\ surf_dims' = <<0, 0>>
                    /\ UNCHANGED <<current_surface_size, window_size>>
            /\ UNCHANGED status
    /\ UNCHANGED <<canvas_size, inner_size, platform_ok, macos, calls>>
    /\ UNCHANGED <<timing_vars, color_vars, draw_vars, app_vars>>

ensure_surface_size ==
    /\ status = "running"
    /\ LET size == inner_size IN
       IF surface = "Some" /\ NeedsResize(size) /\ NonZero(size)
       THEN IF platform_ok
            THEN /\ \E w \in ResizedContents : buffer' = Filled(size, w)
                 /\ surf_dims' = size
                 /\ current_surface_size' = Some(size)
                 /\ window_size' = size
                 /\ last' = Call("ensure_surface_size", size, TRUE, FALSE, "Ok")
                 /\ UNCHANGED status
            ELSE /\ status' = "panicked"
                 /\ last' = Call("ensure_surface_size", size, FALSE, TRUE, "panic")
                 /\ UNCHANGED <<window_size, current_surface_size, surf_dims, buffer>>
       ELSE /\ last' = Call("ensure_surface_size", size, FALSE, FALSE, "Ok")
            /\ UNCHANGED <<window_size, current_surface_size, surf_dims, buffer, status>>
    /\ UNCHANGED <<canvas_size, surface, context, inner_size, platform_ok, macos, calls>>
    /\ UNCHANGED <<timing_vars, color_vars, draw_vars, app_vars>>

\* buffer_mut and present are each followed by expect
present_frame ==
    /\ status = "running"
    /\ IF surface = "Some" /\ ~BufferMutOk
       THEN /\ status' = "panicked"
            /\ last' = Call("present_frame", <<0, 0>>, FALSE, TRUE, "panic")
       ELSE /\ last' = Call("present_frame", <<0, 0>>, FALSE, FALSE, "Ok")
            /\ UNCHANGED status
    /\ UNCHANGED <<canvas_size, window_size, surface, context, current_surface_size,
                   surf_dims, buffer, inner_size, platform_ok, macos, calls>>
    /\ UNCHANGED <<timing_vars, color_vars, draw_vars, app_vars>>

\* The colours the callers clear and draw with
Palette ==
    {Black, Blue}

clear ==
    /\ status = "running"
    /\ \E c \in Palette : buffer' = Clear(buffer, c)
    /\ last' = Call("clear", <<0, 0>>, FALSE, surface = "Some" /\ ~BufferMutOk, "unit")
    /\ UNCHANGED <<canvas_size, window_size, surface, context, current_surface_size,
                   surf_dims, inner_size, platform_ok, macos, status, calls>>
    /\ UNCHANGED <<timing_vars, color_vars, draw_vars, app_vars>>

render_frame ==
    /\ status = "running"
    /\ buffer' = RenderFrame(buffer)
    /\ calls' = LinePoints(7, 3, 12, 37)
    /\ last' = Call("render_frame", <<0, 0>>, FALSE, surface = "Some" /\ ~BufferMutOk,
                    "unit")
    /\ UNCHANGED <<canvas_size, window_size, surface, context, current_surface_size,
                   surf_dims, inner_size, platform_ok, macos, status>>
    /\ UNCHANGED <<timing_vars, color_vars, draw_vars, app_vars>>

(***************************************************************************)
(* The drawing calls, each on arguments drawn at the start                 *)
(***************************************************************************)
\* The largest coordinate of an endpoint given to draw_line
MaxCoord ==
    7

\* A Ready canvas: its logical size and the size of the window it was
\* initialized on
DrawSetups ==
    {[canvas |-> <<7, 1>>, window |-> <<31, 2>>],
     [canvas |-> <<4, 4>>, window |-> <<6, 9>>]}

NoArgs ==
    [op |-> "none", x1 |-> 0, y1 |-> 0, x2 |-> 0, y2 |-> 0, c |-> Black,
     fill |-> <<0, 0>>]

\* set_pixel takes every point of the canvas and the first ones beyond it;
\* draw_line takes every pair of endpoints up to MaxCoord
DrawArgs(canvas) ==
    [op : {"set_pixel"}, x1 : 0..canvas[1], y1 : 0..canvas[2], x2 : {0}, y2 : {0},
     c : {Blue}, fill : ResizedContents]
    \cup
    [op : {"draw_line"}, x1 : 0..MaxCoord, y1 : 0..MaxCoord, x2 : 0..MaxCoord,
     y2 : 0..MaxCoord, c : {Blue}, fill : ResizedContents]

\* The canvas after new and initialize_graphics on a window of the setup's size
CanvasReady(setup, fill) ==
    /\ canvas_size = setup.canvas
    /\ inner_size = setup.window
    /\ window_size = setup.window
    /\ current_surface_size = Some(setup.window)
    /\ surf_dims = setup.window
    /\ buffer = Filled(setup.window, fill)
    /\ surface = "Some"
    /\ context = "Some"
    /\ platform_ok \in BOOLEAN
    /\ macos = FALSE
    /\ status = "running"
    /\ last = [op |-> "initialize_graphics", size |-> setup.window, resized |-> TRUE,
               failed |-> FALSE, ret |-> "Ok", cached |-> FALSE, again |-> FALSE]
    /\ calls = <<>>

set_pixel ==
    /\ pc = "ready"
    /\ args.op = "set_pixel"
    /\ status = "running"
    /\ buffer' = SetPixel(buffer, args.x1, args.y1, args.c)
    /\ last' = Call("set_pixel", <<0, 0>>, FALSE, surface = "Some" /\ ~BufferMutOk,
                    "unit")
    /\ pc' = "done"
    /\ UNCHANGED <<canvas_size, window_size, surface, context, current_surface_size,
                   surf_dims, inner_size, platform_ok, macos, status, calls>>
    /\ UNCHANGED <<timing_vars, color_vars, args, app_vars>>

draw_line ==
    /\ pc = "ready"
    /\ args.op = "draw_line"
    /\ status = "running"
    /\ buffer' = DrawLine(buffer, args.x1, args.y1, args.x2, args.y2, args.c)
    /\ calls' = LinePoints(args.x1, args.y1, args.x2, args.y2)
    /\ last' = Call("draw_line", <<0, 0>>, FALSE, surface = "Some" /\ ~BufferMutOk,
                    "unit")
    /\ pc' = "done"
    /\ UNCHANGED <<canvas_size, window_size, surface, context, current_surface_size,
                   surf_dims, inner_size, platform_ok, macos, status>>
    /\ UNCHANGED <<timing_vars, color_vars, args, app_vars>>

(***************************************************************************)
(* vec4.rs: to_argb on a colour drawn at the start                         *)
(***************************************************************************)
\* Channel values: 0, 1, 1/2, 1/4, 3/4, and -1/2 and 3/2 outside [0, 1]
Channels ==
    {F32Zero, F32One, <<1, -1>>, <<1, -2>>, <<3, -2>>, <<-1, -1>>, <<3, -1>>}

to_argb ==
    /\ ~argb.some
    /\ argb' = Some(ToArgb(color))
    /\ UNCHANGED <<color, canvas_vars, timing_vars, draw_vars, app_vars>>

(***************************************************************************)
(* timing.rs: the frame timing                                             *)
(***************************************************************************)
ENABLE_FPS_LIMIT ==
    TRUE

\* timing.rs: MAX_FPS
MAX_FPS ==
    320

\* main.rs: MAX_FPS
APP_MAX_FPS ==
    240

NANOS_PER_SEC ==
    1000000000

\* The clock stops here
MaxNanos ==
    2000000000

\* ... and so does the number of timing calls
MaxCalls ==
    4

\* The time the caller takes before a call, in nanoseconds
Work ==
    {0, 1000000, 999000000, NANOS_PER_SEC}

\* The record of a timing call: when it began and returned, what it returned, and
\* the counter and the sample time it found
NoTimingCall ==
    [op |-> "none", at |-> 0, done |-> 0, ret |-> "none", fps |-> F32Zero,
     count |-> 0, sample |-> 0]

TimingCall(op, at, done, ret, fps) ==
    [op |-> op, at |-> at, done |-> done, ret |-> ret, fps |-> fps,
     count |-> frame_count_since_last_update, sample |-> fps_update_time]

\* FrameTiming::new()
TimingNew ==
    /\ now = 0
    /\ last_frame_time = 0
    /\ frame_count_since_last_update = 0
    /\ fps_update_time = 0
    /\ t_last = NoTimingCall
    /\ t_prev = NoTimingCall
    /\ t_calls = 0

\* Duration::as_secs_f32: (secs as f32) + (nanos as f32) / (NANOS_PER_SEC as f32)
AsSecsF32(d) ==
    F32AddInt(d \div NANOS_PER_SEC,
              F32Div(RoundF32(d % NANOS_PER_SEC, 0, FALSE), Canon(NANOS_PER_SEC, 0)))

\* An update_fps that samples only after more than a second: what
\* UpdateFpsCountsAndSamples rules out
SampleDueLate(elapsed) ==
    elapsed > NANOS_PER_SEC

\* now.duration_since(self.fps_update_time) >= Duration::from_secs(1)
SampleDue(elapsed) ==
    elapsed >= NANOS_PER_SEC

\* self.frame_count_since_last_update as f32 / elapsed.as_secs_f32()
Fps(count, elapsed) ==
    F32Div(F32OfInt(count), AsSecsF32(elapsed))

update_fps ==
    /\ t_calls < MaxCalls
    /\ \E work \in Work :
          LET at      == now + work
              count   == frame_count_since_last_update + 1
              elapsed == at - fps_update_time
          IN  /\ work <= MaxNanos - now
              /\ now' = at
              /\ IF SampleDue(elapsed)
                 THEN /\ frame_count_since_last_update' = 0
                      /\ fps_update_time' = at
                      /\ t_last' = TimingCall("update_fps", at, at, "Some",
                                              Fps(count, elapsed))
                 ELSE /\ frame_count_since_last_update' = count
                      /\ UNCHANGED fps_update_time
                      /\ t_last' = TimingCall("update_fps", at, at, "None", F32Zero)
              /\ last_frame_time' = at
    /\ t_prev' = t_last
    /\ t_calls' = t_calls + 1
    /\ UNCHANGED <<canvas_vars, color_vars, draw_vars, app_vars>>

\* Duration::from_secs_f32(1.0 / max_fps) in nanoseconds, to the nearest one: the
\* f32 quotients 1.0 / 320.0 and 1.0 / 240.0 round to the same nanosecond as
\* the exact ones
TargetFrameDuration(max_fps) ==
    (NANOS_PER_SEC + (max_fps \div 2)) \div max_fps

\* When a pacing call that begins at `at` returns: it sleeps for what is left of
\* the target frame duration since last_frame_time
PacedUntil(at, max_fps) ==
    LET target_frame_duration == TargetFrameDuration(max_fps)
        elapsed == at - last_frame_time
    IN  IF ENABLE_FPS_LIMIT /\ elapsed < target_frame_duration
        THEN at + (target_frame_duration - elapsed)
        ELSE at

\* FrameTiming::apply_fps_limit(&self)
apply_fps_limit ==
    /\ t_calls < MaxCalls
    /\ \E work \in Work :
          LET at == now + work
          IN  /\ work <= MaxNanos - now
              /\ now' = PacedUntil(at, MAX_FPS)
              /\ t_last' = TimingCall("apply_fps_limit", at, PacedUntil(at, MAX_FPS),
                                      "unit", F32Zero)
    /\ t_prev' = t_last
    /\ t_calls' = t_calls + 1
    /\ UNCHANGED <<last_frame_time, frame_count_since_last_update, fps_update_time>>
    /\ UNCHANGED <<canvas_vars, color_vars, draw_vars, app_vars>>

\* The number of events the loop delivers in a run
MaxEvents ==
    3

\* App::about_to_wait: the same pacing, on the same three fields kept in App
about_to_wait ==
    /\ status = "running"
    /\ pc = "idle"
    /\ events < MaxEvents
    /\ events' = events + 1
    /\ t_calls < MaxCalls
    /\ \E work \in Work :
          LET at == now + work
          IN  /\ work <= MaxNanos - now
              /\ now' = PacedUntil(at, APP_MAX_FPS)
              /\ t_last' = TimingCall("about_to_wait", at, PacedUntil(at, APP_MAX_FPS),
                                      "unit", F32Zero)
    /\ t_prev' = t_last
    /\ t_calls' = t_calls + 1
    /\ UNCHANGED <<last_frame_time, frame_count_since_last_update, fps_update_time>>
    /\ handler' = "about_to_wait"
    /\ log' = <<>>
    /\ UNCHANGED <<window, current_size, overflow_checks>>
    /\ UNCHANGED <<canvas_vars, color_vars, draw_vars>>

(***************************************************************************)
(* main.rs: the App and its event loop                                     *)
(*                                                                         *)
(* main.rs declares no module: App keeps its own window, surface, context  *)
(* and timing fields and its own drawing methods, and its Vec4 is a copy   *)
(* of the one of vec4.rs.  A handler runs from the event to its return in  *)
(* the steps of draw: pc is "idle" between events, and the host may resize *)
(* the window between two steps, because every step asks the window for    *)
(* inner_size() again.                                                     *)
(***************************************************************************)
BLOCK_SCALING ==
    <<10, 10>>

\* The sizes the App's window takes: one without area, one that holds the first
\* block of the drawing and is lower than the rest, one that is as high as the
\* drawing and narrower than all of it
AppSizes ==
    {<<0, 0>>, <<80, 40>>, <<8, 540>>}

\* App::new(): no window yet
AppNew ==
    /\ window = "None"
    /\ current_size = None
    /\ overflow_checks \in BOOLEAN
    /\ handler = "none"
    /\ log = <<>>
    /\ events = 0

\* No App: the state of the App's own variables beside the library's types
NoApp ==
    /\ window = "None"
    /\ current_size = None
    /\ overflow_checks = FALSE
    /\ handler = "none"
    /\ log = <<>>
    /\ events = 0

\* The host resizes the App's window
AppWindowResized ==
    /\ status = "running"
    /\ window = "Some"
    /\ \E size \in AppSizes :
          /\ size # inner_size
          /\ inner_size' = size
    /\ UNCHANGED <<canvas_size, window_size, surface, context, current_surface_size,
                   surf_dims, buffer, platform_ok, macos, status, last, calls>>
    /\ UNCHANGED <<timing_vars, color_vars, draw_vars, app_vars>>

\* let step_size = 0.02_f32
step_size ==
    F32DivInt(1, 50)

\* let steps = (1.0 / step_size) as usize
steps ==
    F32AsU32(F32Div(F32One, step_size))

\* (a as f32 + (b as f32 - a as f32) * t).round() as i32 as u32
BlockCoord(a, b, t) ==
    LET d == F32MulInt(Abs(b - a), t)
    IN  F32RoundAsU32(IF b >= a THEN F32AddInt(a, d) ELSE F32SubInt(a, d))

\* The blocks set_block_line gives to set_block, in order: t = i * step_size for
\* i in 0..steps
BlockLine(x1, y1, x2, y2) ==
    [n \in 1..steps |->
        LET t == F32MulInt(n - 1, step_size)
        IN  <<BlockCoord(x1, x2, t), BlockCoord(y1, y2, t)>>]

\* The four set_block_line calls of draw, in order
FrameLines ==
    <<[from |-> <<7, 3>>,   to |-> <<12, 37>>, color |-> Blue],
      [from |-> <<62, 53>>, to |-> <<12, 37>>, color |-> Green],
      [from |-> <<62, 53>>, to |-> <<7, 3>>,   color |-> Yellow],
      [from |-> <<7, 3>>,   to |-> <<62, 53>>, color |-> Red]>>

\* The blocks of each of them
FrameBlocks ==
    [k \in DOMAIN FrameLines |->
        LET line == FrameLines[k]
            pts  == BlockLine(line.from[1], line.from[2], line.to[1], line.to[2])
        IN  {pts[n] : n \in DOMAIN pts}]

\* The call that paints a block last, 0 if none does (a later set_pixel
\* overwrites an earlier one)
LastPainter ==
    [bx \in 0..63 |-> [by \in 0..63 |->
        LET ks == {k \in DOMAIN FrameLines : <<bx, by>> \in FrameBlocks[k]}
        IN  IF ks = {} THEN 0 ELSE CHOOSE k \in ks : \A j \in ks : j <= k]]

FrameArgb ==
    [k \in DOMAIN FrameLines |-> ToArgb(FrameLines[k].color)]

\* set_pixel computes size.height - 1 - y in u32 before it looks at the range:
\* for a pixel row y at or above the window's height the subtraction overflows,
\* which panics where the build checks overflow and wraps elsewhere (real_y is
\* then above the height, and set_pixel returns).  Whether a set_pixel of draw
\* overflows when the window has the given size:
PixelRowOverflows(size) ==
    \E k \in DOMAIN FrameLines :
       \E b \in FrameBlocks[k] :
          (b[2] * BLOCK_SCALING[2]) + (BLOCK_SCALING[2] - 1) > size[2] - 1

\* Whether a set_pixel of draw is in the range of a window of the given size, and
\* so goes on to buffer_mut()
SomePixelInRange(size) ==
    \E k \in DOMAIN FrameLines :
       \E b \in FrameBlocks[k] :
          /\ b[1] * BLOCK_SCALING[1] < size[1]
          /\ b[2] * BLOCK_SCALING[2] < size[2]

\* The buffer after the four set_block_line calls, while inner_size() returns
\* size.  set_pixel(x, y) writes the word at index real_y * size.width + x, if
\* x < size.width, real_y = size.height - 1 - y is in 0..size.height - 1 and the
\* buffer has that index; the word at an index is given the colour of the last
\* call whose block holds the pixel (x, y) of that index.
PaintFrame(buf, size) ==
    IF size[1] = 0 \/ size[2] = 0 THEN buf
    ELSE [row \in DOMAIN buf |-> [col \in DOMAIN buf[row] |->
            LET index  == (row * surf_dims[1]) + col
                real_y == index \div size[1]
                x      == index % size[1]
                y      == size[2] - 1 - real_y
                k      == IF real_y < size[2]
                          THEN LastPainter[x \div BLOCK_SCALING[1]][y \div BLOCK_SCALING[2]]
                          ELSE 0
            IN  IF k = 0 THEN buf[row][col] ELSE FrameArgb[k]]]

\* The log of a handler after a step of draw that decides by the window's size
\* (ensure_surface_size, and the check of draw itself): "zero_size" if
\* inner_size() gave the step a size without area, then what the step did.  The
\* log holds the calls of the handler in order ("update_fps", "resize", "clear",
\* "set_block_line", "present"), and "panic" if it ended so.
Logged(size, ops) ==
    log \o (IF NonZero(size) THEN <<>> ELSE <<"zero_size">>) \o ops

\* The process panics: an unwrap of None or Err, or a checked overflow
AppPanics(logged) ==
    /\ status' = "panicked"
    /\ log' = logged
    /\ pc' = "idle"
    /\ UNCHANGED <<canvas_size, window_size, surface, context, current_surface_size,
                   surf_dims, buffer, inner_size, platform_ok, macos, last, calls>>
    /\ UNCHANGED <<window, current_size, overflow_checks, handler, events, args>>

\* ApplicationHandler::resumed: a new window, context and surface, then draw.
\* The new surface has no size yet; current_size keeps what it had.
resumed ==
    /\ status = "running"
    /\ pc = "idle"
    /\ events < MaxEvents
    /\ events' = events + 1
    /\ \E size \in AppSizes :
          /\ NonZero(size)
          /\ inner_size' = size
    /\ window' = "Some"
    /\ context' = "Some"
    /\ surface' = "Some"
    /\ surf_dims' = <<0, 0>>
    /\ buffer' = <<>>
    /\ handler' = "resumed"
    /\ log' = <<>>
    /\ pc' = "ensure_surface_size"
    /\ UNCHANGED <<canvas_size, window_size, current_surface_size, platform_ok, macos,
                   status, last, calls>>
    /\ UNCHANGED <<current_size, overflow_checks, args>>
    /\ UNCHANGED <<timing_vars, color_vars>>

\* WindowEvent::CloseRequested, or the Escape key: event_loop.exit()
CloseRequested ==
    /\ status = "running"
    /\ pc = "idle"
    /\ events < MaxEvents
    /\ events' = events + 1
    /\ window = "Some"
    /\ status' = "exited"
    /\ handler' = "CloseRequested"
    /\ log' = <<>>
    /\ UNCHANGED <<canvas_size, window_size, surface, context, current_surface_size,
                   surf_dims, buffer, inner_size, platform_ok, macos, last, calls>>
    /\ UNCHANGED <<window, current_size, overflow_checks>>
    /\ UNCHANGED <<timing_vars, color_vars, draw_vars>>

\* WindowEvent::Resized(_): draw
Resized ==
    /\ status = "running"
    /\ pc = "idle"
    /\ events < MaxEvents
    /\ events' = events + 1
    /\ window = "Some"
    /\ handler' = "Resized"
    /\ log' = <<>>
    /\ pc' = "ensure_surface_size"
    /\ UNCHANGED <<window, current_size, overflow_checks, args>>
    /\ UNCHANGED <<canvas_vars, timing_vars, color_vars>>

\* WindowEvent::RedrawRequested: App::update_fps, then draw.  update_fps is the
\* one of timing.rs, with the rate put in the window's title instead of returned.
RedrawRequested ==
    /\ status = "running"
    /\ pc = "idle"
    /\ events < MaxEvents
    /\ events' = events + 1
    /\ window = "Some"
    /\ t_calls < MaxCalls
    /\ \E work \in Work :
          LET at      == now + work
              count   == frame_count_since_last_update + 1
              elapsed == at - fps_update_time
          IN  /\ work <= MaxNanos - now
              /\ now' = at
              /\ IF SampleDue(elapsed)
                 THEN /\ frame_count_since_last_update' = 0
                      /\ fps_update_time' = at
                      /\ t_last' = TimingCall("App::update_fps", at, at, "title",
                                              Fps(count, elapsed))
                 ELSE /\ frame_count_since_last_update' = count
                      /\ UNCHANGED fps_update_time
                      /\ t_last' = TimingCall("App::update_fps", at, at, "unit", F32Zero)
              /\ last_frame_time' = at
    /\ t_prev' = t_last
    /\ t_calls' = t_calls + 1
    /\ handler' = "RedrawRequested"
    /\ log' = <<"update_fps">>
    /\ pc' = "ensure_surface_size"
    /\ UNCHANGED <<window, current_size, overflow_checks, args>>
    /\ UNCHANGED <<canvas_vars, color_vars>>

\* Whether draw returns before clear: the window has no area
ZeroAreaNever(size) ==
    FALSE

ZeroArea(size) ==
    size[1] = 0 \/ size[2] = 0

\* App::ensure_surface_size, the first call of draw.  NonZeroU32::new(0) is None,
\* and it is unwrapped.
App_ensure_surface_size ==
    /\ status = "running"
    /\ pc = "ensure_surface_size"
    /\ LET size == inner_size IN
       IF window = "Some" /\ surface = "Some" /\ current_size # Some(size)
       THEN IF ~NonZero(size) \/ ~platform_ok
            THEN AppPanics(Logged(size, <<"panic">>))
            ELSE /\ surf_dims' = size
                 /\ \E w \in ResizedContents : buffer' = Filled(size, w)
                 /\ current_size' = Some(size)
                 /\ log' = Logged(size, <<"resize">>)
                 /\ pc' = "draw"
                 /\ UNCHANGED <<canvas_size, window_size, surface, context,
                                current_surface_size, inner_size, platform_ok, macos,
                                status, last, calls>>
                 /\ UNCHANGED <<window, overflow_checks, handler, events, args>>
       ELSE /\ log' = Logged(size, <<>>)
            /\ pc' = "draw"
            /\ UNCHANGED <<window, current_size, overflow_checks, handler, events, args>>
            /\ UNCHANGED canvas_vars
    /\ UNCHANGED <<timing_vars, color_vars>>

\* App::draw after ensure_surface_size: it returns if there is no window or the
\* window has no area
App_draw ==
    /\ status = "running"
    /\ pc = "draw"
    /\ LET size == inner_size IN
       /\ log' = Logged(size, <<>>)
       /\ pc' = IF window = "Some" /\ ~ZeroArea(size) THEN "clear" ELSE "idle"
    /\ UNCHANGED <<window, current_size, overflow_checks, handler, events, args>>
    /\ UNCHANGED <<canvas_vars, timing_vars, color_vars>>

\* App::clear(Vec4::black())
App_clear ==
    /\ status = "running"
    /\ pc = "clear"
    /\ IF surface = "Some" /\ ~BufferMutOk
       THEN AppPanics(Append(log, "panic"))
       ELSE /\ buffer' = IF surface = "Some" THEN Clear(buffer, Black) ELSE buffer
            /\ log' = Append(log, "clear")
            /\ pc' = "set_block_line"
            /\ UNCHANGED <<canvas_size, window_size, surface, context,
                           current_surface_size, surf_dims, inner_size, platform_ok,
                           macos, status, last, calls>>
            /\ UNCHANGED <<window, current_size, overflow_checks, handler, events, args>>
    /\ UNCHANGED <<timing_vars, color_vars>>

\* The four set_block_line calls of draw
App_set_block_line ==
    /\ status = "running"
    /\ pc = "set_block_line"
    /\ LET size == inner_size IN
       IF window = "Some" /\ surface = "Some"
          /\ \/ overflow_checks /\ PixelRowOverflows(size)
             \/ SomePixelInRange(size) /\ ~BufferMutOk
       THEN AppPanics(Append(log, "panic"))
       ELSE /\ buffer' = IF window = "Some" /\ surface = "Some"
                         THEN PaintFrame(buffer, size)
                         ELSE buffer
            /\ log' = Append(log, "set_block_line")
            /\ pc' = "end_frame"
            /\ UNCHANGED <<canvas_size, window_size, surface, context,
                           current_surface_size, surf_dims, inner_size, platform_ok,
                           macos, status, last, calls>>
            /\ UNCHANGED <<window, current_size, overflow_checks, handler, events, args>>
    /\ UNCHANGED <<timing_vars, color_vars>>

\* App::end_frame: buffer_mut().unwrap(), present().unwrap()
App_end_frame ==
    /\ status = "running"
    /\ pc = "end_frame"
    /\ IF surface = "Some" /\ ~BufferMutOk
       THEN AppPanics(Append(log, "panic"))
       ELSE /\ log' = IF surface = "Some" THEN Append(log, "present") ELSE log
            /\ pc' = "idle"
            /\ UNCHANGED <<window, current_size, overflow_checks, handler, events, args>>
            /\ UNCHANGED canvas_vars
    /\ UNCHANGED <<timing_vars, color_vars>>

(***************************************************************************)
(* Specifications                                                          *)
(***************************************************************************)
NoColor ==
    /\ color = Black
    /\ argb = None

NoDraw ==
    /\ args = NoArgs
    /\ pc = "idle"

\* The canvas through its life: a 3 x 2 canvas beside a window that is resized
Init ==
    /\ CanvasNew(<<3, 2>>)
    /\ TimingNew
    /\ NoColor
    /\ NoDraw
    /\ NoApp

Next ==
    \/ WindowResized
    \/ PlatformFault
    \/ initialize_graphics
    \/ ensure_surface_size
    \/ clear
    \/ render_frame
    \/ present_frame

Spec ==
    Init /\ [][Next]_vars

\* The demonstration: the 64 x 64 canvas beside a window of 640 x 640
InitE2E ==
    /\ CanvasNew(<<64, 64>>)
    /\ TimingNew
    /\ NoColor
    /\ NoDraw
    /\ NoApp

NextE2E ==
    \/ WindowResized
    \/ initialize_graphics
    \/ ensure_surface_size
    \/ render_frame
    \/ present_frame

SpecE2E ==
    InitE2E /\ [][NextE2E]_vars

\* One drawing call on a Ready canvas
InitDraw ==
    /\ \E setup \in DrawSetups :
          \E a \in DrawArgs(setup.canvas) :
             /\ args = a
             /\ CanvasReady(setup, a.fill)
    /\ pc = "ready"
    /\ TimingNew
    /\ NoColor
    /\ NoApp

NextDraw ==
    \/ set_pixel
    \/ draw_line

SpecDraw ==
    InitDraw /\ [][NextDraw]_vars

\* One conversion of a colour
InitColor ==
    /\ color \in [r : Channels, g : Channels, b : Channels, a : Channels]
    /\ argb = None
    /\ CanvasNew(<<3, 2>>)
    /\ inner_size = <<0, 0>>
    /\ macos = FALSE
    /\ TimingNew
    /\ NoDraw
    /\ NoApp

NextColor ==
    to_argb

SpecColor ==
    InitColor /\ [][NextColor]_vars

\* The timing calls, in any order
InitTiming ==
    /\ TimingNew
    /\ CanvasNew(<<3, 2>>)
    /\ inner_size = <<0, 0>>
    /\ macos = FALSE
    /\ NoColor
    /\ NoDraw
    /\ NoApp

NextTiming ==
    \/ update_fps
    \/ apply_fps_limit
    \/ about_to_wait

SpecTiming ==
    InitTiming /\ [][NextTiming]_vars

\* The App under its event loop: main() makes the App, and the loop delivers
\* resumed, window events and about_to_wait, one at a time
InitApp ==
    /\ AppNew
    /\ canvas_size = <<0, 0>>
    /\ window_size = <<0, 0>>
    /\ surface = "None"
    /\ context = "None"
    /\ current_surface_size = None
    /\ surf_dims = <<0, 0>>
    /\ buffer = <<>>
    /\ inner_size = <<0, 0>>
    /\ platform_ok = TRUE
    /\ macos = FALSE
    /\ status = "running"
    /\ last = NoCall
    /\ calls = <<>>
    /\ TimingNew
    /\ NoColor
    /\ NoDraw

NextApp ==
    \/ AppWindowResized
    \/ resumed
    \/ CloseRequested
    \/ Resized
    \/ RedrawRequested
    \/ about_to_wait
    \/ App_ensure_surface_size
    \/ App_draw
    \/ App_clear
    \/ App_set_block_line
    \/ App_end_frame

SpecApp ==
    InitApp /\ [][NextApp]_vars

(***************************************************************************)
(* Claims on set_pixel and draw_line (SpecDraw)                            *)
(***************************************************************************)
\* floor(i * n / d), in exact arithmetic
ExactFloor(i, n, d) ==
    (i * n) \div d

DrewPixel ==
    pc = "done" /\ args.op = "set_pixel"

DrewLine ==
    pc = "done" /\ args.op = "draw_line"

\* C1: set_pixel on a Ready canvas of logical size (W,H) and physical size
\* (W',H'), W' >= W and H' >= H, at an in-range (x,y): the pixels that take the
\* colour are exactly the columns [floor(x*W'/W), floor((x+1)*W'/W)) of the
\* flipped rows H'-1-r, r in [floor(y*H'/H), floor((y+1)*H'/H)), and every
\* other pixel keeps its value.
SetPixelPaintsExactBlock ==
    (/\ DrewPixel
     /\ BufferMutOk
     /\ args.x1 < canvas_size[1] /\ args.y1 < canvas_size[2]
     /\ window_size[1] >= canvas_size[1] /\ window_size[2] >= canvas_size[2])
    => LET cols == ExactFloor(args.x1, window_size[1], canvas_size[1])
                   ..(ExactFloor(args.x1 + 1, window_size[1], canvas_size[1]) - 1)
           rows == ExactFloor(args.y1, window_size[2], canvas_size[2])
                   ..(ExactFloor(args.y1 + 1, window_size[2], canvas_size[2]) - 1)
       IN  /\ cols # {} /\ rows # {}
           /\ \A real_y \in 0..(window_size[2] - 1) :
                 \A surface_x \in 0..(window_size[1] - 1) :
                    buffer[real_y][surface_x] =
                       IF surface_x \in cols /\ (window_size[2] - 1 - real_y) \in rows
                       THEN ToArgb(args.c)
                       ELSE args.fill

\* set_pixel(6, 0) on the 7 x 1 canvas of a 31 x 2 window has left the last
\* column of the window as it was
SetPixelLeftLastColumn ==
    /\ DrewPixel
    /\ BufferMutOk
    /\ canvas_size = <<7, 1>> /\ window_size = <<31, 2>>
    /\ args.x1 = 6 /\ args.y1 = 0
    /\ buffer[0][29] = ToArgb(args.c)
    /\ buffer[0][30] = args.fill

\* C2: the points draw_line gives to set_pixel are one connected sequence from
\* endpoint to endpoint: the first and the last are the two endpoints, two
\* consecutive ones differ by exactly 1 on the axis of greater extent and by at
\* most 1 on the other, and a line of no length gives the single point (x1,y1).
LineIsConnected ==
    DrewLine
    => LET n  == Len(calls)
           ex == Abs(args.x1 - args.x2)
           ey == Abs(args.y1 - args.y2)
           a  == <<args.x1, args.y1>>
           b  == <<args.x2, args.y2>>
       IN  /\ n >= 1
           /\ \/ calls[1] = a /\ calls[n] = b
              \/ calls[1] = b /\ calls[n] = a
           /\ \A i \in 1..(n - 1) :
                 LET sx == Abs(calls[i + 1][1] - calls[i][1])
                     sy == Abs(calls[i + 1][2] - calls[i][2])
                 IN  /\ sx <= 1 /\ sy <= 1
                     /\ ex >= ey => sx = 1
                     /\ ey >= ex => sy = 1
           /\ (ex = 0 /\ ey = 0) => calls = <<a>>

\* A steep line of falling slope has been drawn
DrewSteepFallingLine ==
    /\ DrewLine
    /\ args.x1 = 1 /\ args.y1 = 4 /\ args.x2 = 3 /\ args.y2 = 0
    /\ Len(calls) = 5
    /\ calls[1] = <<3, 0>> /\ calls[5] = <<1, 4>>

PointSet(pts) ==
    {pts[i] : i \in DOMAIN pts}

\* C3: draw_line(a, b, c) and draw_line(b, a, c) give set_pixel the same set of
\* points, the half-way cases of the rounding included, so from equal buffers
\* they leave equal buffers.
LineIsSymmetric ==
    DrewLine
    => /\ PointSet(calls)
            = PointSet(LinePoints(args.x2, args.y2, args.x1, args.y1))
       /\ buffer = DrawLine(Filled(window_size, args.fill),
                            args.x2, args.y2, args.x1, args.y1, args.c)

\* A line given from its higher end, whose middle point is half-way between two
\* rows, has been drawn into the buffer
DrewHalfwayLineBackwards ==
    /\ DrewLine
    /\ BufferMutOk
    /\ canvas_size = <<4, 4>>
    /\ args.x1 = 2 /\ args.y1 = 1 /\ args.x2 = 0 /\ args.y2 = 0
    /\ calls = <<<<0, 0>>, <<1, 1>>, <<2, 1>>>>
    /\ buffer # Filled(window_size, args.fill)

(***************************************************************************)
(* Claims on the frame timing (SpecTiming)                                 *)
(***************************************************************************)
\* 1/240 s in nanoseconds, rounded up
ClaimedGap ==
    (NANOS_PER_SEC + 239) \div 240

PacingOps ==
    {"apply_fps_limit", "about_to_wait"}

\* C4: with pacing enabled, two consecutive pacing calls with no work and no
\* update_fps between them are at least 1/240 s apart.  The gap is taken at its
\* widest, from the beginning of the first call to the return of the second.
PacingKeepsGap ==
    (/\ t_last.op \in PacingOps
     /\ t_prev.op = t_last.op
     /\ t_last.at = t_prev.done)
    => t_last.done - t_prev.at >= ClaimedGap

\* Two pacing calls with nothing between them, the second of which did not sleep
SecondPacingDidNotSleep ==
    /\ t_last.op \in PacingOps
    /\ t_prev.op = t_last.op
    /\ t_last.at = t_prev.done
    /\ t_prev.done > t_prev.at
    /\ t_last.done = t_last.at

\* fps * seconds = frames: with F = floor(128 * fps) and E = floor(elapsed / 10 us),
\* F * E <= 12800000 * frames < (F + 1) * (E + 1), up to the 64 that the rounding
\* of the three f32 operations behind fps can amount to on this scale
FpsIsRate(fps, frames, elapsed) ==
    LET F == F32AsU32(<<fps[1], fps[2] + 7>>)
        E == elapsed \div 10000
    IN  /\ F * E <= (frames * 12800000) + 64
        /\ frames * 12800000 <= ((F + 1) * (E + 1)) + 64

\* C8: every update_fps counts its frame; one made less than a second after the
\* last sample returns None; one made a second or more after it returns
\* Some(fps), fps being the frames counted since the sample, this one included,
\* over the seconds since the sample, and leaves the counter at 0 and the sample
\* time at the time of the call.
UpdateFpsCountsAndSamples ==
    t_last.op = "update_fps"
    => LET elapsed == t_last.at - t_last.sample
           frames  == t_last.count + 1
       IN  IF elapsed < NANOS_PER_SEC
           THEN /\ t_last.ret = "None"
                /\ frame_count_since_last_update = frames
                /\ fps_update_time = t_last.sample
           ELSE /\ t_last.ret = "Some"
                /\ FpsIsRate(t_last.fps, frames, elapsed)
                /\ frame_count_since_last_update = 0
                /\ fps_update_time = t_last.at

\* The second frame since a sample, 1.001 s after it, has given a sample
SampledTwoFrames ==
    /\ t_last.op = "update_fps"
    /\ t_last.ret = "Some"
    /\ t_last.count = 1
    /\ t_last.at - t_last.sample = 1001000000
    /\ frame_count_since_last_update = 0

(***************************************************************************)
(* Claim on to_argb (SpecColor)                                            *)
(***************************************************************************)
\* round(clamp(channel, 0, 1) * 255)
RoundedByte(f) ==
    F32RoundAsU32(F32MulInt(255, Clamp01(f)))

\* C10: to_argb returns (A << 24) | (R << 16) | (G << 8) | B, each byte being
\* round(clamp(channel, 0, 1) * 255), for channels outside [0, 1] too; white
\* gives 0xFFFFFFFF, red 0xFFFF0000 and black 0xFF000000.
ToArgbRoundsChannels ==
    argb.some
    => /\ argb.val = PackArgb(RoundedByte(color.a), RoundedByte(color.r),
                              RoundedByte(color.g), RoundedByte(color.b))
       /\ color = White => argb.val = <<65535, 65535>>
       /\ color = Red => argb.val = <<65535, 0>>
       /\ color = Black => argb.val = <<65280, 0>>

\* An opaque colour with every other channel at 1/2 has been packed as
\* 0xFF7F7F7F
PackedHalfGrey ==
    /\ argb.some
    /\ color = Vec4New(<<1, -1>>, <<1, -1>>, <<1, -1>>, F32One)
    /\ argb.val = <<(255 * 256) + 127, (127 * 256) + 127>>

(***************************************************************************)
(* Claims on the life of the canvas (Spec)                                 *)
(***************************************************************************)
CanvasState ==
    <<window_size, current_surface_size, surf_dims, buffer, surface, context>>

\* C5: in any sequence of initialize_graphics and ensure_surface_size calls, one
\* that sees a window of no width or no height returns Ok, resizes nothing and
\* leaves window_size, current_surface_size and the buffer as they were; so the
\* cached size only ever becomes a size with both dimensions above 0.  Calls in
\* which the platform fails are left aside.
ZeroSizeRequestIsNoOp ==
    [][/\ (/\ last'.op \in {"initialize_graphics", "ensure_surface_size"}
           /\ ~NonZero(last'.size)
           /\ ~last'.failed)
          => /\ last'.ret = "Ok"
             /\ ~last'.resized
             /\ UNCHANGED <<window_size, current_surface_size, buffer>>
       /\ <<window_size, current_surface_size>>' # <<window_size, current_surface_size>>
          => /\ NonZero(window_size')
             /\ current_surface_size' = Some(window_size')]_vars

\* A canvas initialized again on a window of no size: the cached size is still
\* that of the surface it has dropped
ReinitializedOnZeroSize ==
    /\ last.op = "initialize_graphics"
    /\ ~NonZero(last.size)
    /\ last.ret = "Ok"
    /\ current_surface_size = Some(<<3, 2>>)
    /\ window_size = <<3, 2>>
    /\ surf_dims = <<0, 0>>
    /\ buffer = <<>>

\* C6: a failure of the platform's surface in initialize_graphics,
\* ensure_surface_size or present_frame is given to the caller as an error: the
\* process goes on, and after a failed present the next call can be made.
PlatformFailureIsReported ==
    (/\ last.op \in {"initialize_graphics", "ensure_surface_size", "present_frame"}
     /\ last.failed)
    => /\ last.ret = "Err"
       /\ status = "running"

\* present_frame has met a failing platform and brought the process down
PresentPanicked ==
    /\ last.op = "present_frame"
    /\ last.failed
    /\ last.ret = "panic"
    /\ status = "panicked"

\* C9: without the macOS resync, after initialize_graphics two consecutive
\* ensure_surface_size calls that see the same non-zero window size resize the
\* surface at most once between them, not at all if that size was the cached
\* one, and the second leaves the canvas as it was.
EnsureIsIdempotent ==
    [][(/\ last'.op = "ensure_surface_size"
        /\ NonZero(last'.size)
        /\ surface = "Some"
        /\ ~macos)
       => /\ last'.cached => ~last'.resized
          /\ last'.again => (~last'.resized /\ UNCHANGED CanvasState)]_vars

\* A second ensure_surface_size on the same non-zero size, after a first that
\* resized the surface to it
EnsuredTwice ==
    /\ last.op = "ensure_surface_size"
    /\ last.again
    /\ last.cached
    /\ ~last.resized
    /\ ~macos
    /\ last.size = <<7, 5>>
    /\ window_size = <<7, 5>>
    /\ surf_dims = <<7, 5>>

(***************************************************************************)
(* Claim on the demonstration frame (SpecE2E)                              *)
(***************************************************************************)
\* The presets but black
Presets ==
    {White, Pink, Blue, Green, Yellow, Red}

\* The pixels of the block of the logical point (x, y) on the 640 x 640 surface
\* all hold w
BlockIs(x, y, w) ==
    \A r \in (10 * y)..((10 * y) + 9) :
       \A surface_x \in (10 * x)..((10 * x) + 9) :
          buffer[640 - 1 - r][surface_x] = w

\* C7: on the 64 x 64 canvas of a 640 x 640 surface, after render_frame the
\* logical points (7,3), (12,37) and (62,53) are each a 10 x 10 block of one
\* preset colour that is not the background, and all that no segment covers is
\* black: here, all that lies outside the box the three points span.
RenderFrameDrawsTriangle ==
    (/\ last.op = "render_frame"
     /\ BufferMutOk
     /\ canvas_size = <<64, 64>>
     /\ window_size = <<640, 640>>)
    => /\ \A p \in {<<7, 3>>, <<12, 37>>, <<62, 53>>} :
             \E c \in Presets : BlockIs(p[1], p[2], ToArgb(c))
       /\ \A real_y \in 0..639 :
             \A surface_x \in 0..639 :
                (\/ surface_x < 70 \/ surface_x > 629
                 \/ 639 - real_y < 30 \/ 639 - real_y > 539)
                => buffer[real_y][surface_x] = ToArgb(Black)

\* render_frame has drawn its segment from (7,3) to (12,37) and left the block
\* of (62,53) black
RenderedOneSegment ==
    /\ last.op = "render_frame"
    /\ BufferMutOk
    /\ window_size = <<640, 640>>
    /\ BlockIs(7, 3, ToArgb(Blue))
    /\ BlockIs(12, 37, ToArgb(Blue))
    /\ BlockIs(62, 53, ToArgb(Black))

(***************************************************************************)
(* C11: what the frame loop presents                                       *)
(***************************************************************************)
Range(seq) ==
    {seq[n] : n \in DOMAIN seq}

\* The words clear and the four set_block_line calls of draw write
FrameWords ==
    {ToArgb(Black)} \cup Range(FrameArgb)

\* The buffer is the whole surface, and every word of it was written by clear or
\* by a set_block_line of draw
FreshFrame ==
    /\ DOMAIN buffer = 0..(surf_dims[2] - 1)
    /\ \A row \in DOMAIN buffer :
          /\ DOMAIN buffer[row] = 0..(surf_dims[1] - 1)
          /\ \A col \in DOMAIN buffer[row] : buffer[row][col] \in FrameWords

TimingFields ==
    <<last_frame_time, frame_count_since_last_update, fps_update_time>>

\* The number of update_fps calls in a handler's log
UpdateFpsCalls(l) ==
    Cardinality({n \in DOMAIN l : l[n] = "update_fps"})

\* C12: the timing fields are written once for every frame produced, by
\* update_fps, and once for every idle tick, by the pacing: a handler that has
\* presented a frame has called update_fps exactly once, and an about_to_wait
\* changes the timing fields.
TimingWrittenPerFrameAndTick ==
    [][/\ "present" \in Range(log') => UpdateFpsCalls(log') = 1
       /\ (handler' = "about_to_wait" /\ events' = events + 1)
              => TimingFields' # TimingFields]_vars

\* resumed has drawn and presented the first frame on a window of 80 x 40, and no
\* timing field was written since App::new()
PresentedWithoutUpdateFps ==
    /\ handler = "resumed"
    /\ log = <<"resize", "clear", "set_block_line", "present">>
    /\ surf_dims = <<80, 40>>
    /\ buffer[0][70] = ToArgb(Red)
    /\ t_calls = 0
    /\ TimingFields = <<0, 0, 0>>

=============================================================================
